---- MODULE Spec2Model ----
(***************************************************************************)
(* DataSport: the entity store (src/core/schema.py), the upsert engine     *)
(* (SQLiteDB.upsert_dataframe, src/core/db.py) and the referential         *)
(* integrity validator (src/core/validation.py).                           *)
(*                                                                         *)
(* A table is the sequence of its rows in rowid order; a row is a function *)
(* from the table's column names to values.  Identifiers and text values   *)
(* are abstracted to the naturals 1..n, SQL NULL / Python None to NULL.    *)
(***************************************************************************)
EXTENDS Integers, Sequences, FiniteSets, TLC

\* ------------------------------------------------------------------ bounds
\* identifiers of every table are drawn from 1..MaxKey
MaxKey == 2
\* values of the free (unconstrained) column of a batch row: NULL or 1..MaxVal
MaxVal == 2
\* rows in a multi-row batch
MaxBatch == 2
\* upsert_dataframe calls in one run of the model
MaxCalls == 2
\* distinct staging-table suffixes uuid4().hex[:8] can produce
MaxUuid == 1
\* processes calling upsert_dataframe at the same time
MaxProcs == 2

\* SQL NULL (pandas missing values are turned into None, then stored as NULL);
\* it lies outside every value domain of the model (all of them are >= 0).
NULL == -1

Ids == 1..MaxKey

\* ------------------------------------------------------------------ schema
Tables ==
    {"countries", "sports", "disciplines", "sources", "competitions", "events",
     "participants", "results", "raw_imports", "sport_federations"}

Cols(t) ==
    CASE t = "countries" -> {"country_id", "iso2", "iso3", "name_en", "name_fr"}
      [] t = "sports" -> {"sport_id", "sport_name", "sport_slug", "created_at_utc"}
      [] t = "disciplines" ->
            {"discipline_id", "discipline_name", "discipline_slug", "sport_id",
             "confidence", "mapping_source", "created_at_utc"}
      [] t = "sources" ->
            {"source_id", "source_name", "source_type", "license_notes", "base_url"}
      [] t = "competitions" ->
            {"competition_id", "sport_id", "name", "season_year", "level",
             "start_date", "end_date", "source_id"}
      [] t = "events" ->
            {"event_id", "competition_id", "discipline_id", "gender", "event_class",
             "event_date"}
      [] t = "participants" -> {"participant_id", "type", "display_name", "country_id"}
      [] t = "results" ->
            {"event_id", "participant_id", "rank", "medal", "score_raw", "points_awarded"}
      [] t = "raw_imports" ->
            {"import_id", "source_id", "fetched_at_utc", "raw_path", "status", "error"}
      [] t = "sport_federations" -> {"sport_id", "federation_qid", "federation_name"}

\* PRIMARY KEY columns, in declaration order
PK(t) ==
    CASE t = "countries" -> <<"country_id">>
      [] t = "sports" -> <<"sport_id">>
      [] t = "disciplines" -> <<"discipline_id">>
      [] t = "sources" -> <<"source_id">>
      [] t = "competitions" -> <<"competition_id">>
      [] t = "events" -> <<"event_id">>
      [] t = "participants" -> <<"participant_id">>
      [] t = "results" -> <<"event_id", "participant_id">>
      [] t = "raw_imports" -> <<"import_id">>
      [] t = "sport_federations" -> <<"sport_id", "federation_qid">>

\* columns declared NOT NULL.  A TEXT PRIMARY KEY column without NOT NULL
\* accepts NULL in SQLite, so the single-column keys are not listed.
NotNull(t) ==
    CASE t = "countries" -> {"name_en"}
      [] t = "sports" -> {"sport_name", "sport_slug", "created_at_utc"}
      [] t = "disciplines" ->
            {"discipline_name", "discipline_slug", "sport_id", "created_at_utc"}
      [] t = "sources" -> {"source_name"}
      [] t = "competitions" -> {"sport_id", "name"}
      [] t = "events" -> {"competition_id"}
      [] t = "participants" -> {"type", "display_name"}
      [] t = "results" -> {"event_id", "participant_id"}
      [] t = "raw_imports" -> {}
      [] t = "sport_federations" -> {"sport_id", "federation_qid"}

\* columns declared UNIQUE besides the primary key
UniqueCols(t) == IF t = "sports" THEN {"sport_slug"} ELSE {}

\* FOREIGN KEY (col) REFERENCES parent(pcol)
FK(t) ==
    CASE t = "disciplines" -> {[col |-> "sport_id", parent |-> "sports", pcol |-> "sport_id"]}
      [] t = "competitions" ->
            {[col |-> "sport_id", parent |-> "sports", pcol |-> "sport_id"],
             [col |-> "source_id", parent |-> "sources", pcol |-> "source_id"]}
      [] t = "events" ->
            {[col |-> "competition_id", parent |-> "competitions", pcol |-> "competition_id"],
             [col |-> "discipline_id", parent |-> "disciplines", pcol |-> "discipline_id"]}
      [] t = "participants" ->
            {[col |-> "country_id", parent |-> "countries", pcol |-> "country_id"]}
      [] t = "results" ->
            {[col |-> "event_id", parent |-> "events", pcol |-> "event_id"],
             [col |-> "participant_id", parent |-> "participants", pcol |-> "participant_id"]}
      [] t = "raw_imports" ->
            {[col |-> "source_id", parent |-> "sources", pcol |-> "source_id"]}
      [] t = "sport_federations" ->
            {[col |-> "sport_id", parent |-> "sports", pcol |-> "sport_id"]}
      [] OTHER -> {}

\* (variant) a connection that never issues the pragma: SQLite's default
ForeignKeysOff == FALSE

\* PRAGMA foreign_keys = ON, issued on every connection
ForeignKeysOn == TRUE

Range(s) == {s[i] : i \in DOMAIN s}

\* ------------------------------------------------------------------ state
VARIABLES
    store,      \* [Tables -> Seq(row)]: the canonical tables
    staging,    \* the _stg_<table>_<uuid> relations present in the store file
    call,       \* the last upsert_dataframe call: its arguments and outcome
    ncalls,     \* calls made so far
    report,     \* what run_all_checks returned, NoReport before it has run
    conc,       \* two processes inside upsert_dataframe: lock, positions, pending writes
    ingest,     \* one run of the ingest pipeline: position, status, what was raised
    schema,     \* the tables and indexes that exist in the store file
    exports,    \* the export bases directory and the payload of the last rebuild
    ids,        \* two identifier derivations: field tuples, hashed strings, identifiers
    slug,       \* one slugify call: its argument and the string it returned
    krun        \* one connector.upsert run: position, payload, the store before and after its delete step

vars == <<store, staging, call, ncalls, report, conc, ingest, schema, exports, ids, slug, krun>>

\* ------------------------------------------------------------------ SQL helpers
\* t.col = s.col in SQL: true only when both operands are non-NULL and equal
SqlEq(a, b) == a # NULL /\ b # NULL /\ a = b

\* where_pk: " AND ".join(f"t.{col}=s.{col}" for col in pk_cols)
WherePk(t_row, s_row, pk_cols) ==
    \A i \in DOMAIN pk_cols : SqlEq(t_row[pk_cols[i]], s_row[pk_cols[i]])

\* EXISTS (SELECT 1 FROM staging AS s WHERE where_pk)
HasMatch(rows, t_row, pk_cols) == \E i \in DOMAIN rows : WherePk(t_row, rows[i], pk_cols)

\* the scalar subquery (SELECT s.col FROM staging AS s WHERE where_pk): the
\* value of the first matching staging row in rowid order, NULL without one
Subquery(rows, t_row, pk_cols, col) ==
    IF HasMatch(rows, t_row, pk_cols)
    THEN rows[CHOOSE i \in DOMAIN rows :
                /\ WherePk(t_row, rows[i], pk_cols)
                /\ \A j \in 1..(i - 1) : ~WherePk(t_row, rows[j], pk_cols)][col]
    ELSE NULL

\* (variant) SET col = COALESCE(incoming, col): an incoming NULL is ignored
SetValueCoalesce(old, incoming) == IF incoming = NULL THEN old ELSE incoming

\* SET col = (subquery): the stored value is replaced by the incoming one
SetValue(old, incoming) == incoming

\* (variant) a REPLACE-style write: a column the batch lacks takes its default
KeepValueDefault(old) == NULL

\* a column that is not in the SET list of the UPDATE keeps its value
KeepValue(old) == old

\* (variant) the UPDATE without its WHERE EXISTS clause rewrites every row
UpdateWhereAll(rows, t_row, pk_cols) == TRUE

\* the rows the UPDATE rewrites: WHERE EXISTS (SELECT 1 FROM staging ...)
UpdateWhere(rows, t_row, pk_cols) == HasMatch(rows, t_row, pk_cols)

\* NOT NULL constraints of table t on a row about to be written
NotNullOk(t, row) == \A c \in NotNull(t) : row[c] # NULL

\* two rows collide in a unique index over cols (NULLs never collide)
KeyConflict(row, other, cols) == \A c \in cols : SqlEq(row[c], other[c])

\* (variant) a schema that declares neither PRIMARY KEY nor UNIQUE
UniqueOkNone(t, tbl, row, skip) == TRUE

\* PRIMARY KEY and UNIQUE constraints of t for a row written at position skip
\* (0 for an inserted row) of the table content tbl
UniqueOk(t, tbl, row, skip) ==
    \A j \in DOMAIN tbl :
        j # skip =>
            /\ ~KeyConflict(row, tbl[j], Range(PK(t)))
            /\ \A u \in UniqueCols(t) : ~KeyConflict(row, tbl[j], {u})

\* immediate FOREIGN KEY constraints of t on a written row, for the child
\* columns the statement writes; enforced only with PRAGMA foreign_keys = ON
FkOk(st, t, row, written) ==
    \/ ~ForeignKeysOn
    \/ \A fk \in FK(t) :
          fk.col \in written =>
              \/ row[fk.col] = NULL
              \/ \E p \in Range(st[fk.parent]) : p[fk.pcol] = row[fk.col]

\* ------------------------------------------------------------------ upsert engine
\* UPDATE t SET col = (SELECT s.col ...) WHERE EXISTS (...): the rows of the
\* table are visited in rowid order; NOT NULL and UNIQUE are checked as each
\* row is written, against the rows already rewritten before it
RECURSIVE UpdateRows(_, _, _, _, _, _)
UpdateRows(t, tbl, i, rows, pk_cols, update_cols) ==
    IF i > Len(tbl) THEN [ok |-> TRUE, rows |-> tbl]
    ELSE IF ~UpdateWhere(rows, tbl[i], pk_cols)
    THEN UpdateRows(t, tbl, i + 1, rows, pk_cols, update_cols)
    ELSE LET new == [c \in DOMAIN tbl[i] |->
                        IF c \in update_cols
                        THEN SetValue(tbl[i][c], Subquery(rows, tbl[i], pk_cols, c))
                        ELSE KeepValue(tbl[i][c])]
         IN IF NotNullOk(t, new) /\ UniqueOk(t, tbl, new, i)
            THEN UpdateRows(t, [tbl EXCEPT ![i] = new], i + 1, rows, pk_cols, update_cols)
            ELSE [ok |-> FALSE, rows |-> tbl]

\* the bulk UPDATE statement: the row pass, then the foreign keys of the
\* rewritten rows at the end of the statement
UpdateStmt(st, t, rows, pk_cols, update_cols) ==
    LET r == UpdateRows(t, st[t], 1, rows, pk_cols, update_cols)
    IN IF ~r.ok THEN r
       ELSE [ok |-> \A i \in DOMAIN r.rows :
                        UpdateWhere(rows, st[t][i], pk_cols) => FkOk(st, t, r.rows[i], update_cols),
             rows |-> r.rows]

\* (variant) the INSERT without its NOT EXISTS filter: every staged row is inserted
ToInsertAll(tbl, rows, pk_cols) == rows

\* SELECT columns FROM staging AS s WHERE NOT EXISTS (SELECT 1 FROM t WHERE where_pk):
\* evaluated against the table as the UPDATE left it, before any row is inserted
ToInsert(tbl, rows, pk_cols) ==
    LET Absent(s) == ~\E j \in DOMAIN tbl : WherePk(tbl[j], s, pk_cols)
    IN SelectSeq(rows, Absent)

\* INSERT INTO t (columns): the columns the batch lacks take their default, NULL
InsertedRow(t, s, columns) == [c \in Cols(t) |-> IF c \in columns THEN s[c] ELSE NULL]

RECURSIVE InsertRows(_, _, _, _, _)
InsertRows(t, tbl, new_rows, k, columns) ==
    IF k > Len(new_rows) THEN [ok |-> TRUE, rows |-> tbl]
    ELSE LET row == InsertedRow(t, new_rows[k], columns)
         IN IF NotNullOk(t, row) /\ UniqueOk(t, tbl, row, 0)
            THEN InsertRows(t, Append(tbl, row), new_rows, k + 1, columns)
            ELSE [ok |-> FALSE, rows |-> tbl]

\* the bulk INSERT statement on the table content tbl the UPDATE left
InsertStmt(st, t, tbl, rows, pk_cols, columns) ==
    LET new_rows == IF pk_cols = <<>> THEN rows ELSE ToInsert(tbl, rows, pk_cols)
        r == InsertRows(t, tbl, new_rows, 1, columns)
    IN IF ~r.ok THEN r
       ELSE [ok |-> \A i \in (Len(tbl) + 1)..Len(r.rows) : FkOk(st, t, r.rows[i], Cols(t)),
             rows |-> r.rows]

\* (variant) the exception leaves the block without a rollback and the next
\* commit on the file keeps what the UPDATE wrote
KeepPartial(before, current) == current

\* "with self.connect() as conn": leaving the block on an exception rolls the
\* open transaction back, so the table is what it was before the UPDATE
RollBack(before, current) == before

\* (variant) a REPLACE-style merge under ON DELETE CASCADE empties the tables
\* that reference the target
WriteTableCascade(st, t, rows) ==
    [u \in Tables |->
        IF u = t THEN rows
        ELSE IF \E fk \in FK(u) : fk.parent = t THEN <<>> ELSE st[u]]

\* the UPDATE, INSERT and commit name the target table only
WriteTable(st, t, rows) == [st EXCEPT ![t] = rows]

\* a DataFrame: None, or a set of columns and a sequence of rows over them
NoneDf == [none |-> TRUE, columns |-> {}, rows |-> <<>>]
DataFrame(columns, rows) == [none |-> FALSE, columns |-> columns, rows |-> rows]
\* (variant) the guard "if df is None or df.empty" left out
EmptyNever(df) == FALSE

\* df is None or df.empty
Empty(df) == df.none \/ df.rows = <<>> \/ df.columns = {}

\* SQLiteDB.upsert_dataframe(table, df, pk_cols); uuid is the suffix drawn for
\* the staging table.  DataFrame.to_sql creates, fills and commits the staging
\* table before the UPDATE opens the transaction that the INSERT, the DROP and
\* the commit end, so a raise leaves the staging table behind.
upsert_dataframe(st, stg, t, df, pk_cols, uuid) ==
    IF Empty(df) THEN [store |-> st, staging |-> stg, outcome |-> "returned", ret |-> 0]
    ELSE
      LET columns == df.columns
          update_cols == columns \ Range(pk_cols)
          staged == stg \cup {<<t, uuid>>}
          raised(tbl) == [store |-> WriteTable(st, t, RollBack(st[t], tbl)),
                          staging |-> staged, outcome |-> "raised", ret |-> NULL]
          upd == IF update_cols # {}
                 THEN UpdateStmt(st, t, df.rows, pk_cols, update_cols)
                 ELSE [ok |-> TRUE, rows |-> st[t]]
          ins == InsertStmt(st, t, upd.rows, df.rows, pk_cols, columns)
      IN IF ~(columns \subseteq Cols(t)) \/ ~(Range(pk_cols) \subseteq columns)
         THEN raised(st[t])
         ELSE IF ~upd.ok THEN raised(upd.rows)
         ELSE IF ~ins.ok THEN raised(upd.rows)
         ELSE [store |-> WriteTable(st, t, ins.rows),
               staging |-> staged \ {<<t, uuid>>},
               outcome |-> "returned", ret |-> Len(df.rows)]

\* ------------------------------------------------------------------ inputs
Vals == {NULL} \cup (1..MaxVal)

\* the non-key foreign-key columns of t
RefCols(t) == {fk.col : fk \in FK(t)} \ Range(PK(t))

\* the one unconstrained column of t the batches vary (for results: rank)
FreeCol(t) ==
    CASE t = "countries" -> "iso2"
      [] t = "sports" -> "sport_name"
      [] t = "disciplines" -> "confidence"
      [] t = "sources" -> "source_type"
      [] t = "competitions" -> "level"
      [] t = "events" -> "gender"
      [] t = "participants" -> "display_name"
      [] t = "results" -> "rank"
      [] t = "raw_imports" -> "status"
      [] t = "sport_federations" -> "federation_name"

\* the columns of a batch: the key, every NOT NULL, UNIQUE and foreign-key
\* column, and the free column; the other columns of the table are omitted
BatchCols(t) == Range(PK(t)) \cup NotNull(t) \cup UniqueCols(t) \cup RefCols(t) \cup {FreeCol(t)}

\* a batch row: key (a tuple over PK(t)), req for the NOT NULL references and
\* the UNIQUE column, opt for the nullable references, free for the free column
MkRow(t, key, req, opt, free) ==
    [c \in BatchCols(t) |->
        IF \E i \in DOMAIN PK(t) : PK(t)[i] = c
        THEN key[CHOOSE i \in DOMAIN PK(t) : PK(t)[i] = c]
        ELSE IF c = FreeCol(t) THEN free
        ELSE IF c \in UniqueCols(t) THEN req
        ELSE IF c \in RefCols(t) THEN (IF c \in NotNull(t) THEN req ELSE opt)
        ELSE 1]

\* key values offered in batches; a missing (NULL) key is offered for
\* countries (TEXT PRIMARY KEY) and for results (NOT NULL key columns)
Keys(t) ==
    IF Len(PK(t)) = 1
    THEN {<<k>> : k \in Ids} \cup (IF t = "countries" THEN {<<NULL>>} ELSE {})
    ELSE (Ids \X Ids) \cup (IF t = "results" THEN {<<NULL, 1>>} ELSE {})

ReqDom(t) ==
    IF UniqueCols(t) # {} \/ (RefCols(t) \cap NotNull(t)) # {} THEN Ids ELSE {1}
OptDom(t) == IF (RefCols(t) \ NotNull(t)) # {} THEN Ids \cup {NULL} ELSE {NULL}
FreeDom(t) == IF t = "results" THEN Vals \cup {0} ELSE Vals

\* rows of the one-row batches
Rows(t) ==
    {MkRow(t, k, r, o, f) : k \in Keys(t), r \in ReqDom(t), o \in OptDom(t), f \in FreeDom(t)}

\* rows of the multi-row batches: row k references parent k
Rows2(t) ==
    {MkRow(t, k, IF k[1] = NULL THEN 1 ELSE k[1], NULL, f) :
        k \in (IF Len(PK(t)) = 1 THEN Keys(t) ELSE {<<i, 1>> : i \in Ids}),
        f \in 1..MaxVal}

SeqsOf(S, n) == {f \in [1..n -> S] : TRUE}

\* the batches offered for table t (duplicate keys inside a batch included),
\* the empty DataFrame and None
Batches(t) ==
    {DataFrame(BatchCols(t), <<r>>) : r \in Rows(t)}
    \cup UNION {{DataFrame(BatchCols(t), rs) : rs \in SeqsOf(Rows2(t), n)} : n \in 2..MaxBatch}
    \cup {DataFrame(BatchCols(t), <<>>), NoneDf}

\* ------------------------------------------------------------------ initial stores
\* create_schema on a new file: every table exists and is empty
EmptyStore == [t \in Tables |-> <<>>]

\* a row of table t as stored (all columns)
StoredRow(t, key, req, opt, free) == InsertedRow(t, MkRow(t, key, req, opt, free), BatchCols(t))

\* the store after the dimension bootstrap and one connector run: one row in
\* every table, every foreign key pointing at the row with identifier 1
SeedStore ==
    [t \in Tables |->
        <<StoredRow(t, IF Len(PK(t)) = 1 THEN <<1>> ELSE <<1, 1>>, 1,
                    IF (RefCols(t) \ NotNull(t)) # {} THEN 1 ELSE NULL, 1)>>]

NoCall == [table |-> "none", df |-> NoneDf, outcome |-> "none", ret |-> 0, again |-> FALSE]

\* ------------------------------------------------------------------ validator
\* (variant) the check written with an inner JOIN: no row has a NULL parent side
OrphanCountInner(st, child, col, parent, pcol) == 0

\* (variant) COUNT(DISTINCT c.col): the missing parents, not the child rows
OrphanCountDistinct(st, child, col, parent, pcol) ==
    Cardinality({st[child][i][col] : i \in {k \in DOMAIN st[child] :
                    ~\E p \in Range(st[parent]) : SqlEq(p[pcol], st[child][k][col])}})

\* SELECT COUNT(*) FROM child c LEFT JOIN parent p ON p.pcol = c.col
\* WHERE p.pcol IS NULL: the child rows no parent row joins to
OrphanCount(st, child, col, parent, pcol) ==
    Cardinality({i \in DOMAIN st[child] :
                    ~\E p \in Range(st[parent]) : SqlEq(p[pcol], st[child][i][col])})

\* (variant) a sweep that repairs: it deletes the events and results rows its
\* checks count
DeleteOrphans(st) ==
    LET KeepEvent(r) == \E p \in Range(st["competitions"]) : SqlEq(p["competition_id"], r["competition_id"])
        KeepResult(r) == /\ \E p \in Range(st["events"]) : SqlEq(p["event_id"], r["event_id"])
                         /\ \E p \in Range(st["participants"]) : SqlEq(p["participant_id"], r["participant_id"])
    IN [st EXCEPT !["events"] = SelectSeq(st["events"], KeepEvent),
                  !["results"] = SelectSeq(st["results"], KeepResult)]

\* every query is a SELECT COUNT(*): the store after the sweep is the store
\* before it
SelectCount(st) == st

\* (variant) a check that reports ok whatever it counted
CheckAlwaysOk(name, invalid_rows) == [check |-> name, invalid_rows |-> invalid_rows, ok |-> TRUE]

Check(name, invalid_rows) == [check |-> name, invalid_rows |-> invalid_rows, ok |-> invalid_rows = 0]

run_fk_integrity_checks(st) ==
    <<Check("disciplines.sport_id exists",
            OrphanCount(st, "disciplines", "sport_id", "sports", "sport_id")),
      Check("competitions.sport_id exists",
            OrphanCount(st, "competitions", "sport_id", "sports", "sport_id")),
      Check("events.competition_id exists",
            OrphanCount(st, "events", "competition_id", "competitions", "competition_id")),
      Check("results.event_id exists",
            OrphanCount(st, "results", "event_id", "events", "event_id")),
      Check("results.participant_id exists",
            OrphanCount(st, "results", "participant_id", "participants", "participant_id"))>>

run_sanity_checks(st) ==
    <<Check("results.rank >= 1 or null",
            Cardinality({i \in DOMAIN st["results"] :
                            st["results"][i]["rank"] # NULL /\ st["results"][i]["rank"] < 1})),
      Check("participants.country_id exists or null",
            Cardinality({i \in DOMAIN st["participants"] :
                            /\ st["participants"][i]["country_id"] # NULL
                            /\ ~\E c \in Range(st["countries"]) :
                                  SqlEq(c["country_id"], st["participants"][i]["country_id"])}))>>

run_all_checks(st) ==
    LET all_checks == run_fk_integrity_checks(st) \o run_sanity_checks(st)
        NotOk(c) == ~c.ok
        failed == SelectSeq(all_checks, NotOk)
    IN [checks_total |-> Len(all_checks),
        checks_failed |-> Len(failed),
        passed |-> Len(failed) = 0,
        checks |-> all_checks]

NoReport == [checks_total |-> 0, checks_failed |-> 0, passed |-> FALSE, checks |-> <<>>]

\* ------------------------------------------------------------------ schema creation
Indexes ==
    {"idx_disciplines_sport", "idx_events_competition", "idx_results_rank",
     "idx_competitions_source", "idx_raw_imports_source"}

\* everything SCHEMA_SQL declares
AllObjects == Tables \cup Indexes

\* the rows of a store file in which only the tables of sch exist
Existing(st, sch) == [t \in Tables |-> IF t \in sch THEN st[t] ELSE <<>>]

\* (variant) DROP TABLE IF EXISTS before every CREATE TABLE
create_schema_fresh(st, sch) == [store |-> EmptyStore, schema |-> AllObjects]

\* executescript(SCHEMA_SQL): CREATE TABLE / INDEX IF NOT EXISTS.  What exists
\* is skipped, what is missing is created empty.  A table that does not exist
\* has no rows in st.
create_schema(st, sch) ==
    [store |-> Existing(st, sch), schema |-> sch \cup AllObjects]

\* no export directory considered
NoExports == [legacy |-> {}, bases |-> <<>>, before |-> <<>>, payload |-> <<>>]

\* no identifier has been derived
NoIds == [pc |-> "idle", run |-> 1, prefix |-> <<>>, a |-> <<>>, b |-> <<>>,
          payload_a |-> <<>>, payload_b |-> <<>>, id_a |-> <<>>, id_b |-> <<>>,
          id_again |-> <<>>]

\* slugify has not been called
NoSlug == [pc |-> "idle", value |-> <<>>, result |-> <<>>]

\* no connector run in progress
NoRun == [pc |-> "idle", connector |-> "none", payload |-> <<>>, step |-> 0,
          base |-> <<>>, deleted |-> <<>>]

\* raw_imports.status values written by the ingest pipeline
STATUS_SUCCESS == 1
STATUS_SKIPPED == 2
STATUS_ERROR == 3

\* no ingest run in progress
NoIngest == [pc |-> "none", status |-> NULL, error_text |-> NULL, exc |-> "none",
             done |-> 0, import_id |-> NULL]

\* no concurrent run in progress
NoConc == [base |-> EmptyStore, lock |-> 0, table |-> "none", proc |-> <<>>]

\* ------------------------------------------------------------------ the upsert engine as a state machine
Init ==
    /\ store \in {EmptyStore, SeedStore}
    /\ staging = {}
    /\ call = NoCall
    /\ ncalls = 0
    /\ report = NoReport
    /\ krun = NoRun
    /\ slug = NoSlug
    /\ ids = NoIds
    /\ exports = NoExports
    /\ schema = AllObjects
    /\ ingest = NoIngest
    /\ conc = NoConc

\* one call db.upsert_dataframe(t, df, PK(t)), as every caller passes the
\* primary key of the table
Upsert(t, df, uuid) ==
    /\ ncalls < MaxCalls
    /\ LET r == upsert_dataframe(store, staging, t, df, PK(t), uuid)
       IN /\ store' = r.store
          /\ staging' = r.staging
          /\ call' = [table |-> t, df |-> df, outcome |-> r.outcome, ret |-> r.ret,
                      again |-> (call.table = t /\ call.df = df)]
    /\ ncalls' = ncalls + 1
    /\ UNCHANGED <<report, conc, ingest, schema, exports, ids, slug, krun>>

Next == \E t \in Tables : \E df \in Batches(t) : \E uuid \in 1..MaxUuid : Upsert(t, df, uuid)

Spec == Init /\ [][Next]_vars

\* ------------------------------------------------------------------ the validator on a store file
\* run_all_checks takes the path of any store file: besides the stores the
\* engine builds, files written while foreign keys were not enforced (another
\* tool, an older connection).  One table of the seeded store is replaced by
\* one or two arbitrary rows; NOT NULL, PRIMARY KEY and UNIQUE are enforced on
\* every connection, so the rows satisfy them.
DriftRows(t) ==
    {InsertedRow(t, x, BatchCols(t)) : x \in {y \in Rows(t) : NotNullOk(t, InsertedRow(t, y, BatchCols(t)))}}

DriftTables(t) ==
    {<<r>> : r \in DriftRows(t)}
    \cup {<<r[1], r[2]>> : r \in {q \in DriftRows(t) \X DriftRows(t) : UniqueOk(t, <<q[1]>>, q[2], 0)}}

DriftStores ==
    {EmptyStore, SeedStore}
    \cup UNION {{[SeedStore EXCEPT ![t] = tbl] : tbl \in DriftTables(t)} : t \in Tables}

InitV ==
    /\ store \in DriftStores
    /\ staging = {}
    /\ call = NoCall
    /\ ncalls = 0
    /\ report = NoReport
    /\ krun = NoRun
    /\ slug = NoSlug
    /\ ids = NoIds
    /\ exports = NoExports
    /\ schema = AllObjects
    /\ ingest = NoIngest
    /\ conc = NoConc

\* python -m src.pipelines.validate: one run of run_all_checks on the file
RunAllChecks ==
    /\ report = NoReport
    /\ report' = run_all_checks(store)
    /\ store' = SelectCount(store)
    /\ UNCHANGED <<staging, call, ncalls, conc, ingest, schema, exports, ids, slug, krun>>

NextV == RunAllChecks

SpecV == InitV /\ [][NextV]_vars

\* ------------------------------------------------------------------ two processes, one table
\* Each process runs upsert_dataframe on its own connection.  The steps of a
\* call are the statements it sends: to_sql (creates, fills and commits the
\* staging table), UPDATE (opens the transaction), INSERT, DROP + COMMIT.
\* SQLite in rollback-journal mode has one write lock per file: the first
\* write of a transaction takes it, COMMIT or ROLLBACK gives it back, and a
\* connection that cannot get it waits up to the connect() timeout and then
\* raises "database is locked".
Procs == 1..MaxProcs

\* (variant) a store without a write lock: every write proceeds at once
CanWriteUnlocked(lock, p) == TRUE

\* process p may write: no other process holds the write lock
CanWrite(lock, p) == lock = 0 \/ lock = p

\* batches of the concurrent calls: one row, or two rows with distinct keys
ConcBatches(t) ==
    {DataFrame(BatchCols(t), <<r>>) : r \in Rows2(t)}
    \cup {DataFrame(BatchCols(t), <<q[1], q[2]>>) :
            q \in {x \in Rows2(t) \X Rows2(t) : ~WherePk(x[1], x[2], PK(t))}}

InitC ==
    /\ store \in {EmptyStore, SeedStore}
    /\ staging = {}
    /\ call = NoCall
    /\ ncalls = 0
    /\ report = NoReport
    /\ krun = NoRun
    /\ slug = NoSlug
    /\ ids = NoIds
    /\ exports = NoExports
    /\ schema = AllObjects
    /\ ingest = NoIngest
    /\ \E t \in Tables : \E dfs \in [Procs -> ConcBatches(t)] :
          conc = [base |-> store, lock |-> 0, table |-> t,
                  proc |-> [p \in Procs |-> [df |-> dfs[p], pc |-> "start", work |-> <<>>]]]

\* the process leaves the call: pc is "returned" or "raised"; a transaction it
\* had open is over and its lock released
Leave(p, pc) ==
    [conc EXCEPT !.lock = IF conc.lock = p THEN 0 ELSE conc.lock,
                 !.proc[p].pc = pc, !.proc[p].work = <<>>]

\* clean_df.to_sql(staging_table, ...): the staging table is created and
\* committed; an unknown column is only met by the UPDATE / INSERT
CStage(p) ==
    /\ conc.table \in Tables /\ conc.proc[p].pc = "start"
    /\ IF Empty(conc.proc[p].df)
       THEN conc' = Leave(p, "returned") /\ UNCHANGED staging
       ELSE /\ CanWrite(conc.lock, p)
            /\ staging' = staging \cup {<<conc.table, p>>}
            /\ conc' = [conc EXCEPT !.proc[p].pc = "staged"]
    /\ UNCHANGED <<store, call, ncalls, report, ingest, schema, exports, ids, slug, krun>>

\* the UPDATE statement: takes the write lock, works on the committed table
CUpdate(p) ==
    /\ conc.table \in Tables /\ conc.proc[p].pc = "staged"
    /\ CanWrite(conc.lock, p)
    /\ LET t == conc.table
           df == conc.proc[p].df
           update_cols == df.columns \ Range(PK(t))
           upd == IF update_cols # {} THEN UpdateStmt(store, t, df.rows, PK(t), update_cols)
                  ELSE [ok |-> TRUE, rows |-> store[t]]
       IN IF ~(df.columns \subseteq Cols(t)) \/ ~(Range(PK(t)) \subseteq df.columns) \/ ~upd.ok
          THEN conc' = Leave(p, "raised")
          ELSE conc' = [conc EXCEPT !.lock = p, !.proc[p].pc = "updated", !.proc[p].work = upd.rows]
    /\ UNCHANGED <<store, staging, call, ncalls, report, ingest, schema, exports, ids, slug, krun>>

\* the INSERT statement, in the transaction the UPDATE opened
CInsert(p) ==
    /\ conc.table \in Tables /\ conc.proc[p].pc = "updated"
    /\ LET t == conc.table
           df == conc.proc[p].df
           ins == InsertStmt(store, t, conc.proc[p].work, df.rows, PK(t), df.columns)
       IN IF ~ins.ok
          THEN conc' = Leave(p, "raised")
          ELSE conc' = [conc EXCEPT !.proc[p].pc = "inserted", !.proc[p].work = ins.rows]
    /\ UNCHANGED <<store, staging, call, ncalls, report, ingest, schema, exports, ids, slug, krun>>

\* DROP TABLE staging; COMMIT: the pending table content becomes the stored one
CCommit(p) ==
    /\ conc.table \in Tables /\ conc.proc[p].pc = "inserted"
    /\ store' = WriteTable(store, conc.table, conc.proc[p].work)
    /\ staging' = staging \ {<<conc.table, p>>}
    /\ conc' = Leave(p, "returned")
    /\ UNCHANGED <<call, ncalls, report, ingest, schema, exports, ids, slug, krun>>

\* the connect() timeout ran out while another process held the write lock:
\* sqlite3.OperationalError, the call raises
CBusy(p) ==
    /\ conc.table \in Tables /\ conc.proc[p].pc \in {"start", "staged"}
    /\ ~Empty(conc.proc[p].df)
    /\ ~CanWrite(conc.lock, p)
    /\ conc' = Leave(p, "raised")
    /\ UNCHANGED <<store, staging, call, ncalls, report, ingest, schema, exports, ids, slug, krun>>

NextC == \E p \in Procs : CStage(p) \/ CUpdate(p) \/ CInsert(p) \/ CCommit(p) \/ CBusy(p)

SpecC == InitC /\ [][NextC]_vars

\* ------------------------------------------------------------------ a process killed inside the call
\* (variant) no journal: the pages the UPDATE and INSERT had written stay
CrashStorePartial(st, t, work) == IF work = <<>> THEN st ELSE WriteTable(st, t, work)

\* the store file after the process died: the transaction the call had open
\* was never committed, the next connection rolls its journal back
CrashStore(st, t, work) == st

\* the process is killed (SIGKILL, power loss) at any point of the call: its
\* connection is gone and with it the lock it held; what it had not
\* committed is lost; the staging table, committed by to_sql, stays
CKill(p) ==
    /\ conc.table \in Tables /\ conc.proc[p].pc \in {"start", "staged", "updated", "inserted"}
    /\ store' = CrashStore(store, conc.table, conc.proc[p].work)
    /\ conc' = [Leave(p, "killed") EXCEPT !.proc[p].work = conc.proc[p].work]
    /\ UNCHANGED <<staging, call, ncalls, report, ingest, schema, exports, ids, slug, krun>>

NextX == \E p \in Procs : CStage(p) \/ CUpdate(p) \/ CInsert(p) \/ CCommit(p) \/ CBusy(p) \/ CKill(p)

SpecX == InitC /\ [][NextX]_vars

\* ------------------------------------------------------------------ the ingest pipeline
\* python -m src.pipelines.ingest: one connector, one year.  Each of fetch,
\* parse, upsert and export either completes or raises; only fetch raises
\* MissingCredentialError.
PayloadTables ==
    {"countries", "sports", "disciplines", "competitions", "events", "participants", "results"}

InitI ==
    /\ store \in {EmptyStore, SeedStore}
    /\ staging = {}
    /\ call = NoCall
    /\ ncalls = 0
    /\ report = NoReport
    /\ krun = NoRun
    /\ slug = NoSlug
    /\ ids = NoIds
    /\ exports = NoExports
    /\ schema = AllObjects
    /\ conc = NoConc
    /\ ingest = [NoIngest EXCEPT !.pc = "start"]

\* (variant) handlers that leave status as it was initialised
StatusUnset(exc) == STATUS_SUCCESS

\* status after the try block: untouched, or set by the handler that caught exc
StatusAfter(exc) ==
    CASE exc = "none" -> STATUS_SUCCESS
      [] exc = "MissingCredentialError" -> STATUS_SKIPPED
      [] exc = "Exception" -> STATUS_ERROR

\* a step of the try block raised exc: the handler sets status and error_text,
\* control goes to the finally clause
Handle(exc) ==
    [ingest EXCEPT !.pc = "finally", !.exc = exc, !.status = StatusAfter(exc), !.error_text = 1]

\* create_schema, ensure_source(connector.source_row()), import_id, status = "success"
IStart ==
    /\ ingest.pc = "start"
    /\ LET r == upsert_dataframe(create_schema(store, schema).store, staging, "sources",
                                 DataFrame(Cols("sources"), <<[c \in Cols("sources") |-> 1]>>),
                                 PK("sources"), 1)
       IN /\ store' = r.store
          /\ staging' = r.staging
          /\ \E id \in Ids :
                ingest' = IF r.outcome = "raised" THEN [ingest EXCEPT !.pc = "raised"]
                          ELSE [ingest EXCEPT !.pc = "fetch", !.import_id = id,
                                              !.status = StatusAfter("none")]
    /\ schema' = create_schema(store, schema).schema
    /\ UNCHANGED <<call, ncalls, report, conc, exports, ids, slug, krun>>

\* connector.fetch(year, raw_dir)
IFetch ==
    /\ ingest.pc = "fetch"
    /\ \E outcome \in {"none", "MissingCredentialError", "Exception"} :
          ingest' = IF outcome = "none" THEN [ingest EXCEPT !.pc = "parse", !.done = 1]
                    ELSE Handle(outcome)
    /\ UNCHANGED <<store, staging, call, ncalls, report, conc, schema, exports, ids, slug, krun>>

\* connector.parse(raw_paths, year)
IParse ==
    /\ ingest.pc = "parse"
    /\ \E outcome \in {"none", "Exception"} :
          ingest' = IF outcome = "none" THEN [ingest EXCEPT !.pc = "upsert", !.done = 2]
                    ELSE Handle(outcome)
    /\ UNCHANGED <<store, staging, call, ncalls, report, conc, schema, exports, ids, slug, krun>>

\* connector.upsert(db, payload): a payload table is merged; a raising
\* upsert_dataframe is the exception of this step
IUpsert ==
    /\ ingest.pc = "upsert"
    /\ \E t \in PayloadTables : \E df \in Batches(t) :
          LET r == upsert_dataframe(store, staging, t, df, PK(t), 1)
          IN /\ store' = r.store
             /\ staging' = r.staging
             /\ ingest' = IF r.outcome = "returned" THEN [ingest EXCEPT !.pc = "export", !.done = 3]
                           ELSE Handle("Exception")
    /\ UNCHANGED <<call, ncalls, report, conc, schema, exports, ids, slug, krun>>

\* connector.export(payload, export_dir)
IExport ==
    /\ ingest.pc = "export"
    /\ \E outcome \in {"none", "Exception"} :
          ingest' = IF outcome = "none" THEN [ingest EXCEPT !.pc = "finally", !.done = 4]
                    ELSE Handle(outcome)
    /\ UNCHANGED <<store, staging, call, ncalls, report, conc, schema, exports, ids, slug, krun>>

\* the row the finally clause hands to log_raw_import
RawImportRow ==
    [import_id |-> ingest.import_id, source_id |-> 1, fetched_at_utc |-> 1, raw_path |-> 1,
     status |-> ingest.status, error |-> ingest.error_text]

\* finally: db.log_raw_import(row); then the exception caught by
\* `except Exception` is re-raised, otherwise the run goes on to validation
ILogRawImport ==
    /\ ingest.pc = "finally"
    /\ LET r == upsert_dataframe(store, staging, "raw_imports",
                                 DataFrame(Cols("raw_imports"), <<RawImportRow>>),
                                 PK("raw_imports"), 1)
       IN /\ store' = r.store
          /\ staging' = r.staging
          /\ ingest' = [ingest EXCEPT !.pc = IF r.outcome = "raised" \/ ingest.exc = "Exception"
                                             THEN "raised" ELSE "validate"]
    /\ UNCHANGED <<call, ncalls, report, conc, schema, exports, ids, slug, krun>>

\* run_all_checks(db.db_path), build meta, data dictionary: the run ends
IValidate ==
    /\ ingest.pc = "validate"
    /\ report' = run_all_checks(store)
    /\ store' = SelectCount(store)
    /\ ingest' = [ingest EXCEPT !.pc = "done"]
    /\ UNCHANGED <<staging, call, ncalls, conc, schema, exports, ids, slug, krun>>

NextI == IStart \/ IFetch \/ IParse \/ IUpsert \/ IExport \/ ILogRawImport \/ IValidate

SpecI == InitI /\ [][NextI]_vars

\* ------------------------------------------------------------------ the export builder
\* bases_dir holds one directory per base and, from an older layout, .db
\* files.  A directory is the set of its files; a file is its name (stem and
\* extension) and, for a CSV file, its data lines.  A CSV cell is a text: the
\* sequence of its characters.
ActiveBases == {"competition", "lineage"}
BaseNames == ActiveBases \cup {"reference"}

competition_tables ==
    <<"countries", "sports", "disciplines", "sources", "sport_federations",
      "competitions", "events", "participants", "results">>
lineage_tables == <<"raw_imports">>

\* columns declared INTEGER: pandas reads them as float64 when a row holds NULL
IntegerCols(t) ==
    CASE t = "results" -> {"rank"}
      [] t = "competitions" -> {"season_year"}
      [] OTHER -> {}

\* (variant) SELECT * ... LIMIT 1
read_table_limit(st, t) == IF st[t] = <<>> THEN <<>> ELSE <<st[t][1]>>

\* SELECT * FROM table: every row, in rowid order
read_table(st, t) == st[t]

\* frame.to_csv(path, index=False): one line per row; a missing value is the
\* empty text, an integer of a float64 column is written with ".0" (here: a
\* second character 0)
to_csv(t, frame) ==
    [i \in DOMAIN frame |->
        [c \in Cols(t) |->
            IF frame[i][c] = NULL THEN <<>>
            ELSE IF c \in IntegerCols(t) /\ \E j \in DOMAIN frame : frame[j][c] = NULL
                 THEN <<frame[i][c], 0>>
                 ELSE <<frame[i][c]>>]]

File(stem, ext, lines) == [stem |-> stem, ext |-> ext, lines |-> lines]

\* (variant) a cleanup that unlinks nothing
IsStaleNever(f, table_list) == FALSE

\* base_dir.glob("*.csv") entries whose name is not an expected file
IsStale(f, table_list) == f.ext = "csv" /\ f.stem \notin Range(table_list)

_export_tables_to_csv_base(master, base_dir, table_list) ==
    LET kept == {f \in base_dir : ~IsStale(f, table_list)}
        written == {File(t, "csv", to_csv(t, read_table(master, t))) : t \in Range(table_list)}
        overwritten == {f \in kept : f.ext = "csv" /\ f.stem \in Range(table_list)}
    IN [dir |-> (kept \ overwritten) \cup written,
        table_counts |-> [t \in Range(table_list) |-> Len(read_table(master, t))]]

\* files a base directory may hold before a rebuild: an export of an earlier
\* rebuild, exports of tables of the other base or of no table, a note
PreFiles ==
    {File("countries", "csv", <<>>), File("raw_imports", "csv", <<>>),
     File("old_table", "csv", <<>>), File("notes", "txt", <<>>)}

\* a store file: new (nothing created yet), written before sport_federations
\* and the indexes were added to the schema, or complete
PreSchemas == {{}, Tables \ {"sport_federations"}, AllObjects}

\* a store with two rows in some tables and NULLs in nullable columns
RichStore ==
    [SeedStore EXCEPT
        !["countries"] = <<StoredRow("countries", <<1>>, 1, NULL, 1),
                           StoredRow("countries", <<2>>, 1, NULL, NULL)>>,
        !["events"] = <<StoredRow("events", <<1>>, 1, 1, 1), StoredRow("events", <<2>>, 1, NULL, 2)>>,
        !["results"] = <<StoredRow("results", <<1, 1>>, 1, NULL, NULL),
                         StoredRow("results", <<2, 1>>, 1, NULL, 2)>>]

InitE ==
    /\ schema \in PreSchemas
    /\ store \in {Existing(st, schema) : st \in {EmptyStore, SeedStore, RichStore}}
    /\ staging = {}
    /\ call = NoCall
    /\ ncalls = 0
    /\ report = NoReport
    /\ krun = NoRun
    /\ slug = NoSlug
    /\ ids = NoIds
    /\ conc = NoConc
    /\ ingest = NoIngest
    /\ \E legacy \in {{}, {"competition.db", "lineage.db"}} :
       \E dirs \in [ActiveBases -> SUBSET PreFiles] :
       \E reference \in {{}, {File("countries", "csv", <<>>)}} :
          exports = [legacy |-> legacy,
                     bases |-> [b \in BaseNames |-> IF b \in ActiveBases THEN dirs[b] ELSE reference],
                     before |-> <<>>,
                     payload |-> <<>>]

\* build_multi_database_architecture(processed_dir, master_db_path)
BuildArchitecture ==
    /\ exports # NoExports /\ exports.payload = <<>>
    /\ LET master == create_schema(store, schema)
           competition == _export_tables_to_csv_base(master.store, exports.bases["competition"],
                                                     competition_tables)
           lineage == _export_tables_to_csv_base(master.store, exports.bases["lineage"],
                                                 lineage_tables)
       IN /\ store' = master.store
          /\ schema' = master.schema
          /\ exports' = [legacy |-> {},
                         bases |-> [b \in BaseNames |->
                                      CASE b = "competition" -> competition.dir
                                        [] b = "lineage" -> lineage.dir
                                        [] OTHER -> {}],
                         before |-> exports.bases,
                         payload |-> [competition |-> [tables |-> competition_tables,
                                                       rows_synced |-> competition.table_counts],
                                      lineage |-> [tables |-> lineage_tables,
                                                   rows_synced |-> lineage.table_counts]]]
    /\ UNCHANGED <<staging, call, ncalls, report, conc, ingest, ids, slug, krun>>

\* db.create_schema() on the store file
CreateSchema ==
    /\ exports # NoExports /\ exports.payload = <<>>
    /\ ncalls < MaxCalls
    /\ store' = create_schema(store, schema).store
    /\ schema' = create_schema(store, schema).schema
    /\ ncalls' = ncalls + 1
    /\ UNCHANGED <<staging, call, report, conc, ingest, exports, ids, slug, krun>>

NextE == BuildArchitecture \/ CreateSchema

SpecE == InitE /\ [][NextE]_vars

\* ------------------------------------------------------------------ identifiers
\* stable_sha1 / stable_id (core/utils.py).  A text is a sequence of
\* characters; a field is any Python object: a str, an int or None.

MaxFieldLen == 2
MaxFields == 2
\* runs of the program (interpreter processes) in which identifiers are derived
MaxRuns == 2

Alphabet == {"1", "|"}
Texts == UNION {[1..n -> Alphabet] : n \in 0..MaxFieldLen}
StrField(s) == [kind |-> "str", s |-> s, n |-> 0]
IntField(n) == [kind |-> "int", s |-> <<>>, n |-> n]
NoneField == [kind |-> "none", s |-> <<>>, n |-> 0]
Fields == {StrField(s) : s \in Texts} \cup {IntField(1)} \cup {NoneField}
FieldTuples == UNION {[1..n -> Fields] : n \in 0..MaxFields}

\* str(part): a str is itself, an int its decimal digits, None the text None
Digit(n) == CASE n = 0 -> "0" [] n = 1 -> "1" [] n = 2 -> "2" [] n = 3 -> "3"
              [] n = 4 -> "4" [] n = 5 -> "5" [] n = 6 -> "6" [] n = 7 -> "7"
              [] n = 8 -> "8" [] OTHER -> "9"

RECURSIVE Decimal(_)
Decimal(n) == IF n < 10 THEN <<Digit(n)>> ELSE Decimal(n \div 10) \o <<Digit(n % 10)>>

str(part) ==
    CASE part.kind = "str" -> part.s
      [] part.kind = "int" -> Decimal(part.n)
      [] OTHER -> <<"N", "o", "n", "e">>

\* "|".join(texts)
RECURSIVE Join(_)
Join(texts) ==
    IF texts = <<>> THEN <<>>
    ELSE IF Len(texts) = 1 THEN texts[1]
    ELSE texts[1] \o <<"|">> \o Join(Tail(texts))

\* the string stable_sha1 hashes
Payload(parts) == Join([i \in 1..Len(parts) |-> str(parts[i])])

\* (variant) the built-in hash() of a str, salted anew in every interpreter
\* process (PYTHONHASHSEED)
hash_salted(text) == <<"hash", Digit(ids.run)>> \o text

\* SHA-1 without collisions: the digest names the text it was computed from
sha1(text) == <<"sha1">> \o text

stable_sha1(parts) == sha1(Payload(parts))

stable_id(prefix, parts) == prefix \o <<"_">> \o stable_sha1(parts)

Prefixes == {<<"e">>, <<"t">>}

InitH ==
    /\ store = EmptyStore
    /\ staging = {}
    /\ call = NoCall
    /\ ncalls = 0
    /\ report = NoReport
    /\ krun = NoRun
    /\ slug = NoSlug
    /\ conc = NoConc
    /\ ingest = NoIngest
    /\ schema = AllObjects
    /\ exports = NoExports
    /\ ids = NoIds

\* two identifiers are derived with the same prefix
StableId ==
    /\ ids.pc = "idle"
    /\ \E prefix \in Prefixes, a \in FieldTuples, b \in FieldTuples :
           ids' = [pc |-> "derived", run |-> ids.run, id_again |-> <<>>,
                   prefix |-> prefix, a |-> a, b |-> b,
                   payload_a |-> Payload(a),
                   payload_b |-> Payload(b),
                   id_a |-> stable_id(prefix, a),
                   id_b |-> stable_id(prefix, b)]
    /\ UNCHANGED <<store, staging, call, ncalls, report, conc, ingest, schema, exports, slug, krun>>

\* the interpreter exits and a later run of a pipeline starts
NewRun ==
    /\ ids.pc = "derived"
    /\ ids.run < MaxRuns
    /\ ids' = [ids EXCEPT !.run = ids.run + 1]
    /\ UNCHANGED <<store, staging, call, ncalls, report, conc, ingest, schema, exports, slug, krun>>

\* the identifier of the first field tuple is derived once more, in the run
\* the program is in
StableIdAgain ==
    /\ ids.pc = "derived"
    /\ ids' = [ids EXCEPT !.pc = "again", !.id_again = stable_id(ids.prefix, ids.a)]
    /\ UNCHANGED <<store, staging, call, ncalls, report, conc, ingest, schema, exports, slug, krun>>

NextH == StableId \/ NewRun \/ StableIdAgain

SpecH == InitH /\ [][NextH]_vars

\* ------------------------------------------------------------------ slugify
\* slugify (core/utils.py).  The characters of the model: an ASCII lower-case
\* letter, an ASCII upper-case letter, a digit, a blank, the separator, a
\* punctuation mark and an accented letter.

MaxSlugLen == 3

SlugChars == {"a", "A", "1", " ", "-", "é"}
SlugInputs == UNION {[1..n -> SlugChars] : n \in 0..MaxSlugLen}

RECURSIVE LStrip(_, _)
LStrip(s, chars) == IF s # <<>> /\ s[1] \in chars THEN LStrip(Tail(s), chars) ELSE s

RECURSIVE RStrip(_, _)
RStrip(s, chars) ==
    IF s # <<>> /\ s[Len(s)] \in chars THEN RStrip(SubSeq(s, 1, Len(s) - 1), chars) ELSE s

\* str.strip(chars)
Strip(s, chars) == RStrip(LStrip(s, chars), chars)

\* str.strip() without argument removes white space
Whitespace == {" "}

\* str.lower(), character by character
LowerChar(c) == IF c = "A" THEN "a" ELSE c
Lower(s) == [i \in DOMAIN s |-> LowerChar(s[i])]

\* SLUG_PATTERN = [^a-z0-9]+ : the characters a match is made of
SLUG_PATTERN(c) == c \notin {"a", "1"}

\* SLUG_PATTERN.sub("-", s): every maximal run of matching characters becomes
\* one separator
RECURSIVE PatternSub(_)
PatternSub(s) ==
    IF s = <<>> THEN <<>>
    ELSE IF ~SLUG_PATTERN(s[1]) THEN <<s[1]>> \o PatternSub(Tail(s))
    ELSE IF Len(s) > 1 /\ SLUG_PATTERN(s[2]) THEN PatternSub(Tail(s))
    ELSE <<"-">> \o PatternSub(Tail(s))

Unknown == <<"u", "n", "k", "n", "o", "w", "n">>

slugify(value) ==
    LET lowered == Lower(Strip(value, Whitespace))
        result == Strip(PatternSub(lowered), {"-"})
    IN IF result = <<>> THEN Unknown ELSE result

InitS ==
    /\ store = EmptyStore
    /\ staging = {}
    /\ call = NoCall
    /\ ncalls = 0
    /\ report = NoReport
    /\ krun = NoRun
    /\ conc = NoConc
    /\ ingest = NoIngest
    /\ schema = AllObjects
    /\ exports = NoExports
    /\ ids = NoIds
    /\ slug = NoSlug

\* one call slugify(value)
Slugify ==
    /\ slug.pc = "idle"
    /\ \E value \in SlugInputs :
           slug' = [pc |-> "returned", value |-> value, result |-> slugify(value)]
    /\ UNCHANGED <<store, staging, call, ncalls, report, conc, ingest, schema, exports, ids, krun>>

NextS == Slugify

SpecS == InitS /\ [][NextS]_vars

\* ------------------------------------------------------------------ a connector's upsert
\* connector.upsert(db, payload): a delete step in a transaction of its own,
\* then one upsert_dataframe call per table, each in its own transaction.
\* The dimension bootstrap (pipelines/bootstrap_dimensions.py) is the same
\* sequence without a delete step, starting with ensure_source and
\* log_raw_import.

\* source_id of the running connector (self.id), and the source the Olympic
\* history connector names in its delete step: 'paris_2024_summer_olympics'
SELF == 1
PARIS == 2

Connectors ==
    {"fiba_ranking_history", "olympics_keith_history", "football_data", "bootstrap_dimensions"}

\* (variant) the results table merged first, the dimensions last
MergeOrderChildrenFirst(k) ==
    <<"results", "participants", "events", "competitions", "disciplines", "sports", "countries">>

\* the tables in the order of the upsert_dataframe calls
MergeOrder(k) ==
    CASE k = "football_data" -> <<"sports", "competitions", "events", "participants", "results">>
      [] k = "bootstrap_dimensions" ->
            <<"sources", "raw_imports", "countries", "sports", "disciplines">>
      [] OTHER ->
            <<"countries", "sports", "disciplines", "competitions", "events",
              "participants", "results">>

\* a stored row of table t: every column holds 1 except those given in vals
FullRow(t, vals) == [c \in Cols(t) |-> IF c \in DOMAIN vals THEN vals[c] ELSE 1]

\* the rows source k owns (mapping_source k stands for 'connector_<source k>')
OwnedRows(t, k) ==
    CASE t = "disciplines" -> <<FullRow(t, [discipline_id |-> k, mapping_source |-> k])>>
      [] t = "competitions" -> <<FullRow(t, [competition_id |-> k, source_id |-> k])>>
      [] t = "events" ->
            <<FullRow(t, [event_id |-> k, competition_id |-> k, discipline_id |-> k])>>
      [] t = "participants" -> <<FullRow(t, [participant_id |-> k])>>
      [] t = "results" -> <<FullRow(t, [event_id |-> k, participant_id |-> k])>>
      [] OTHER -> <<>>

\* a store after earlier runs: the shared dimensions, both source rows, and
\* the rows of the sources in F
StoreOf(F) ==
    [t \in Tables |->
        CASE t = "sources" -> <<FullRow(t, [source_id |-> SELF]), FullRow(t, [source_id |-> PARIS])>>
          [] t \in {"countries", "sports"} -> <<FullRow(t, << >>)>>
          [] OTHER -> (IF SELF \in F THEN OwnedRows(t, SELF) ELSE <<>>)
                      \o (IF PARIS \in F THEN OwnedRows(t, PARIS) ELSE <<>>)]

KStores == {StoreOf(F) : F \in SUBSET {SELF, PARIS}}

\* one DELETE FROM t WHERE ... inside the transaction tx = [ok, store]:
\* gone is the set of rows of t selected by the WHERE clause; with foreign keys
\* on, the statement fails when a remaining row references a deleted one
DeleteFrom(tx, t, gone) ==
    IF ~tx.ok THEN tx
    ELSE LET st == tx.store
             Keep(r) == r \notin gone
             Referenced(g) ==
                 \E u \in Tables : \E fk \in FK(u) :
                     /\ fk.parent = t
                     /\ \E c \in Range(IF u = t THEN SelectSeq(st[t], Keep) ELSE st[u]) :
                           SqlEq(c[fk.col], g[fk.pcol])
         IN IF ForeignKeysOn /\ \E g \in Range(st[t]) : g \in gone /\ Referenced(g)
            THEN [ok |-> FALSE, store |-> st]
            ELSE [ok |-> TRUE, store |-> [st EXCEPT ![t] = SelectSeq(st[t], Keep)]]

\* the three statements that remove the results, events and competitions of
\* the competitions with source_id = src
DeleteBySource(tx, src) ==
    LET ResultGone(st) ==
            {r \in Range(st["results"]) :
                \E e \in Range(st["events"]) : \E c \in Range(st["competitions"]) :
                    /\ SqlEq(c["competition_id"], e["competition_id"])
                    /\ SqlEq(c["source_id"], src)
                    /\ SqlEq(r["event_id"], e["event_id"])}
        EventGone(st) ==
            {e \in Range(st["events"]) :
                \E c \in Range(st["competitions"]) :
                    SqlEq(c["source_id"], src) /\ SqlEq(e["competition_id"], c["competition_id"])}
        CompetitionGone(st) == {c \in Range(st["competitions"]) : SqlEq(c["source_id"], src)}
        t1 == DeleteFrom(tx, "results", ResultGone(tx.store))
        t2 == DeleteFrom(t1, "events", EventGone(t1.store))
    IN DeleteFrom(t2, "competitions", CompetitionGone(t2.store))

\* DELETE FROM disciplines WHERE mapping_source = 'connector_<source src>'
DeleteDisciplines(tx, src) ==
    DeleteFrom(tx, "disciplines",
               {d \in Range(tx.store["disciplines"]) : SqlEq(d["mapping_source"], src)})

\* DELETE FROM participants WHERE (participant_id LIKE 'athlete_%' OR ... 'nation_%')
\* AND participant_id NOT IN (SELECT DISTINCT participant_id FROM results);
\* the participants of the model all carry one of the two prefixes
DeleteParticipants(tx) ==
    DeleteFrom(tx, "participants",
               {q \in Range(tx.store["participants"]) :
                   ~\E r \in Range(tx.store["results"]) :
                       r["participant_id"] = q["participant_id"]})

\* the "with db.connect() as conn: ... conn.commit()" block at the start of
\* upsert; an exception rolls the whole block back
delete_step(st, k) ==
    LET tx == [ok |-> TRUE, store |-> st]
        r == CASE k = "fiba_ranking_history" -> DeleteDisciplines(DeleteBySource(tx, SELF), SELF)
               [] k = "olympics_keith_history" ->
                     DeleteParticipants(
                         DeleteDisciplines(DeleteBySource(DeleteBySource(tx, SELF), PARIS), PARIS))
               [] OTHER -> tx
    IN IF r.ok THEN r ELSE [ok |-> FALSE, store |-> st]

\* (variant) the whole upsert inside one transaction: a raise undoes the run
AfterRaiseOneTransaction(base, st) == base

\* every call commits on its own: when a later call raises, what the earlier
\* transactions committed stays
AfterRaise(base, st) == st

\* the payloads of the model: the three dimension tables hold row 1 or are
\* empty together; competitions, events, participants and results hold at
\* most one row each.  pd.DataFrame() stands for a table the payload lacks.
OneRow(t, key, req, opt, free) == DataFrame(BatchCols(t), <<MkRow(t, key, req, opt, free)>>)

NoRows == DataFrame({}, <<>>)

Payloads ==
    {[t \in Tables |->
        CASE t \in {"countries", "sports", "disciplines"} ->
                (IF b.dims THEN OneRow(t, <<1>>, 1, NULL, 2) ELSE NoRows)
          [] t = "competitions" ->
                (IF b.c = NULL THEN NoRows ELSE OneRow(t, <<b.c>>, 1, SELF, 2))
          [] t = "events" ->
                (IF b.e = <<>> THEN NoRows ELSE OneRow(t, <<b.e[1]>>, b.e[2], NULL, 2))
          [] t = "participants" ->
                (IF b.p = NULL THEN NoRows ELSE OneRow(t, <<b.p>>, 1, NULL, 2))
          [] t = "results" ->
                (IF b.r = <<>> THEN NoRows ELSE OneRow(t, b.r, 1, NULL, 2))
          [] t = "sources" -> OneRow(t, <<SELF>>, 1, NULL, 2)
          [] t = "raw_imports" -> OneRow(t, <<1>>, 1, SELF, 1)
          [] OTHER -> NoRows] :
     b \in [dims : BOOLEAN, c : Ids \cup {NULL}, e : (Ids \X Ids) \cup {<<>>},
            p : Ids \cup {NULL}, r : (Ids \X Ids) \cup {<<>>}]}

InitK ==
    /\ store \in KStores
    /\ staging = {}
    /\ call = NoCall
    /\ ncalls = 0
    /\ report = NoReport
    /\ conc = NoConc
    /\ ingest = NoIngest
    /\ schema = AllObjects
    /\ exports = NoExports
    /\ ids = NoIds
    /\ slug = NoSlug
    /\ krun = NoRun

\* connector.upsert(db, payload) is entered
KStart ==
    /\ krun.pc = "idle"
    /\ \E k \in Connectors : \E payload \in Payloads :
          krun' = [pc |-> "delete", connector |-> k, payload |-> payload, step |-> 1,
                   base |-> store, deleted |-> store]
    /\ UNCHANGED <<store, staging, call, ncalls, report, conc, ingest, schema, exports, ids, slug>>

\* the delete step commits, or raises and leaves the store as it was
KDelete ==
    /\ krun.pc = "delete"
    /\ LET r == delete_step(store, krun.connector)
       IN /\ store' = r.store
          /\ krun' = [krun EXCEPT !.pc = IF r.ok THEN "merge" ELSE "raised",
                                  !.deleted = r.store]
    /\ UNCHANGED <<staging, call, ncalls, report, conc, ingest, schema, exports, ids, slug>>

\* the next db.upsert_dataframe(table, payload.get(table, pd.DataFrame()), pk)
KMerge ==
    /\ krun.pc = "merge"
    /\ LET order == MergeOrder(krun.connector)
           t == order[krun.step]
           r == upsert_dataframe(store, staging, t, krun.payload[t], PK(t), 1)
       IN /\ store' = IF r.outcome = "raised" THEN AfterRaise(krun.base, r.store) ELSE r.store
          /\ staging' = r.staging
          /\ call' = [table |-> t, df |-> krun.payload[t], outcome |-> r.outcome,
                      ret |-> r.ret, again |-> FALSE]
          /\ krun' = IF r.outcome = "raised" THEN [krun EXCEPT !.pc = "raised"]
                     ELSE IF krun.step = Len(order) THEN [krun EXCEPT !.pc = "returned"]
                     ELSE [krun EXCEPT !.step = krun.step + 1]
    /\ UNCHANGED <<ncalls, report, conc, ingest, schema, exports, ids, slug>>

NextK == KStart \/ KDelete \/ KMerge

SpecK == InitK /\ [][NextK]_vars

\* ------------------------------------------------------------------ claims: vocabulary
\* the batch row at position i is the first of the batch with its key
FirstOccurrence(rows, i, pk_cols) == \A j \in 1..(i - 1) : ~WherePk(rows[i], rows[j], pk_cols)

NonNullKey(row, pk_cols) == \A i \in DOMAIN pk_cols : row[pk_cols[i]] # NULL

\* every row of the batch has a non-NULL key and no two rows share one
DistinctNonNullKeys(df, pk_cols) ==
    \A i \in DOMAIN df.rows :
        NonNullKey(df.rows[i], pk_cols) /\ FirstOccurrence(df.rows, i, pk_cols)

\* the stored row of table content tbl a batch row matches by key, if any
Stored(tbl, b, pk_cols) == {j \in DOMAIN tbl : WherePk(tbl[j], b, pk_cols)}

\* a batch row that breaks a NOT NULL or a FOREIGN KEY constraint of t in store st
RowViolates(st, t, b, columns) ==
    \/ \E c \in NotNull(t) \cap columns : b[c] = NULL
    \/ \E fk \in FK(t) :
          /\ fk.col \in columns
          /\ b[fk.col] # NULL
          /\ ~\E p \in Range(st[fk.parent]) : p[fk.pcol] = b[fk.col]

\* ------------------------------------------------------------------ C1
\* C1 (idempotence): when a call repeats the previous call (same table, same
\* batch) and the rows of the batch have distinct non-NULL keys, the second
\* call changes no table and ends as the first did (same outcome, same count).
C1_Idempotent ==
    [][(call'.again /\ DistinctNonNullKeys(call'.df, PK(call'.table)))
          => (store' = store /\ call'.outcome = call.outcome /\ call'.ret = call.ret)]_vars

\* a two-row batch with distinct keys was merged twice, both calls returning
C1_Witness ==
    /\ call.again /\ call.outcome = "returned"
    /\ Len(call.df.rows) = 2
    /\ DistinctNonNullKeys(call.df, PK(call.table))
    /\ \A i \in DOMAIN call.df.rows : Stored(store[call.table], call.df.rows[i], PK(call.table)) # {}

\* ------------------------------------------------------------------ C2
\* C2 (atomicity): a call that raises leaves the target table exactly as it
\* was, the rows its UPDATE had rewritten included; and the call does raise
\* when a row it has to write (the first batch row of a key) breaks a
\* NOT NULL or FOREIGN KEY constraint.
C2_Atomic ==
    [][LET t == call'.table
           df == call'.df
       IN /\ call'.outcome = "raised" => store'[t] = store[t]
          /\ (\E i \in DOMAIN df.rows :
                 /\ FirstOccurrence(df.rows, i, PK(t))
                 /\ RowViolates(store, t, df.rows[i], df.columns))
              => call'.outcome = "raised"]_vars

\* the call raised on a batch whose first row matched a stored row and would
\* have changed it, and whose second row is new and breaks a foreign key
C2_Witness ==
    /\ call.outcome = "raised"
    /\ Len(call.df.rows) = 2
    /\ LET t == call.table
           b1 == call.df.rows[1]
           b2 == call.df.rows[2]
       IN /\ \E j \in Stored(store[t], b1, PK(t)) :
                 /\ store[t][j][FreeCol(t)] # b1[FreeCol(t)]
                 /\ ~RowViolates(store, t, b1, call.df.columns)
          /\ Stored(store[t], b2, PK(t)) = {}
          /\ RowViolates(store, t, b2, call.df.columns)

C4_NoLeak == [][\A u \in Tables \ {call'.table} : store'[u] = store[u]]_vars

\* two calls with overlapping keys on one table, the first changing it and
\* the second raising, beside other tables that hold rows
C4_Witness ==
    /\ ncalls = 2 /\ call.outcome = "raised"
    /\ \A u \in Tables \ {call.table} : store[u] = SeedStore[u]
    /\ store[call.table] # SeedStore[call.table]
    /\ \E i \in DOMAIN call.df.rows :
          Stored(store[call.table], call.df.rows[i], PK(call.table)) # {}

\* ------------------------------------------------------------------ C5
\* rows the INSERT has to add: the batch rows with no stored match, one per key
\* (a row with a NULL key matches nothing and counts on its own)
NewRows(tbl, df, pk_cols) ==
    {i \in DOMAIN df.rows :
        FirstOccurrence(df.rows, i, pk_cols) /\ Stored(tbl, df.rows[i], pk_cols) = {}}

\* C5 as stated, on its most favourable batches (distinct non-NULL keys):
\* after every call the row count of the target table has grown by the number
\* of batch keys that were not stored before
C5_Original ==
    [][LET t == call'.table
       IN DistinctNonNullKeys(call'.df, PK(t)) =>
            Len(store'[t]) = Len(store[t]) + Cardinality(NewRows(store[t], call'.df, PK(t)))]_vars

\* C5 (amended): a call never deletes or changes a row of the target table
\* whose key does not occur in its batch; when the call returns the row count
\* grows by exactly the number of batch keys not stored before, and when it
\* raises the row count is unchanged.
C5_Untouched ==
    [][LET t == call'.table
           df == call'.df
       IN /\ \A j \in DOMAIN store[t] :
                ~HasMatch(df.rows, store[t][j], PK(t)) =>
                    (j \in DOMAIN store'[t] /\ store'[t][j] = store[t][j])
          /\ call'.outcome = "returned" =>
                Len(store'[t]) = Len(store[t]) + Cardinality(NewRows(store[t], df, PK(t)))
          /\ call'.outcome = "raised" => Len(store'[t]) = Len(store[t])]_vars

\* first call on the seeded store: a new key was inserted beside the stored
\* row, which the batch does not mention and which is unchanged
C5_Witness ==
    /\ ncalls = 1 /\ call.outcome = "returned"
    /\ LET t == call.table
       IN /\ Len(store[t]) = 2
          /\ store[t][1] = SeedStore[t][1]
          /\ ~HasMatch(call.df.rows, store[t][1], PK(t))
          /\ HasMatch(call.df.rows, store[t][2], PK(t))

\* ------------------------------------------------------------------ C6
\* C6 (malformed batch): a batch with a NULL in a primary-key column of some
\* row makes the call raise before anything is written: no table changes and
\* no staging table is created.
C6_NullKeyRejected ==
    [][(\E i \in DOMAIN call'.df.rows : ~NonNullKey(call'.df.rows[i], PK(call'.table)))
          => (call'.outcome = "raised" /\ store' = store /\ staging' = staging)]_vars

\* ------------------------------------------------------------------ C7
\* C7 (referential integrity): in every reachable store, every non-NULL
\* foreign-key value of every row references an existing parent row.
C7_FkIntegrity ==
    \A t \in Tables : \A r \in Range(store[t]) : \A fk \in FK(t) :
        r[fk.col] # NULL => \E p \in Range(store[fk.parent]) : p[fk.pcol] = r[fk.col]

\* from the empty store: a parent was merged, then a child row referencing it
C7_Witness ==
    /\ ncalls = 2 /\ call.outcome = "returned"
    /\ store["countries"] = <<>>
    /\ \E r \in Range(store[call.table]) : \E fk \in FK(call.table) : r[fk.col] # NULL

\* ------------------------------------------------------------------ C8
\* a row of table t whose non-NULL value in col has no parent row
Dangling(st, t, col, parent, pcol) ==
    \E r \in Range(st[t]) :
        r[col] # NULL /\ ~\E p \in Range(st[parent]) : p[pcol] = r[col]

\* C8 as stated: whenever some row of some table holds a non-NULL foreign-key
\* value with no matching parent row, run_all_checks returns passed = false.
C8_Original ==
    (report # NoReport /\ \E t \in Tables : \E fk \in FK(t) :
                             Dangling(store, t, fk.col, fk.parent, fk.pcol))
        => report.passed = FALSE

\* the foreign keys the validator sweeps
CheckedFks ==
    {[t |-> "disciplines", col |-> "sport_id", parent |-> "sports", pcol |-> "sport_id"],
     [t |-> "competitions", col |-> "sport_id", parent |-> "sports", pcol |-> "sport_id"],
     [t |-> "events", col |-> "competition_id", parent |-> "competitions", pcol |-> "competition_id"],
     [t |-> "results", col |-> "event_id", parent |-> "events", pcol |-> "event_id"],
     [t |-> "results", col |-> "participant_id", parent |-> "participants", pcol |-> "participant_id"],
     [t |-> "participants", col |-> "country_id", parent |-> "countries", pcol |-> "country_id"]}

\* C8 (amended): whenever some row holds a non-NULL value with no matching
\* parent row in disciplines.sport_id, competitions.sport_id,
\* events.competition_id, results.event_id, results.participant_id or
\* participants.country_id, run_all_checks returns passed = false; and a store
\* with no such row and no rank below 1 passes, whatever its other foreign
\* keys hold.
C8_CheckedFks ==
    report # NoReport =>
        LET dangling == \E k \in CheckedFks : Dangling(store, k.t, k.col, k.parent, k.pcol)
            bad_rank == \E r \in Range(store["results"]) : r["rank"] # NULL /\ r["rank"] < 1
        IN /\ dangling => report.passed = FALSE
           /\ (~dangling /\ ~bad_rank) => report.passed = TRUE
           /\ report.checks_total = Len(report.checks)
           /\ report.passed = (report.checks_failed = 0)

\* the validator ran on a store whose event references a competition that is
\* not there, and reported it
C8_Witness ==
    /\ report # NoReport
    /\ Dangling(store, "events", "competition_id", "competitions", "competition_id")
    /\ report.passed = FALSE
    /\ report.checks[3].invalid_rows = 1

\* ------------------------------------------------------------------ C9
\* C9 (one result per pair): no two stored results rows share
\* (event_id, participant_id), and a returning upsert of a stored pair keeps
\* exactly one row for that pair, holding the incoming values.
C9_OneResultPerPair ==
    /\ [](\A i, j \in DOMAIN store["results"] :
            (/\ store["results"][i]["event_id"] = store["results"][j]["event_id"]
             /\ store["results"][i]["participant_id"] = store["results"][j]["participant_id"])
            => i = j)
    /\ [][(call'.table = "results" /\ call'.outcome = "returned") =>
            \A k \in DOMAIN call'.df.rows :
                (/\ FirstOccurrence(call'.df.rows, k, PK("results"))
                 /\ Stored(store["results"], call'.df.rows[k], PK("results")) # {})
                => /\ Stored(store'["results"], call'.df.rows[k], PK("results"))
                        = Stored(store["results"], call'.df.rows[k], PK("results"))
                   /\ Len(store'["results"]) = Len(store["results"])
                        + Cardinality(NewRows(store["results"], call'.df, PK("results")))
                   /\ \A j \in Stored(store'["results"], call'.df.rows[k], PK("results")) :
                         store'["results"][j]["rank"] = call'.df.rows[k]["rank"]]_vars

\* the seeded result (1, 1) was upserted again with another rank: still one row
C9_Witness ==
    /\ ncalls = 1 /\ call.table = "results" /\ call.outcome = "returned"
    /\ Len(store["results"]) = 1
    /\ store["results"][1]["event_id"] = 1 /\ store["results"][1]["participant_id"] = 1
    /\ SeedStore["results"][1]["rank"] = 1 /\ store["results"][1]["rank"] = 2

\* ------------------------------------------------------------------ C10
\* C10 (rank is positive): every stored rank is NULL or an integer >= 1.
C10_RankPositive ==
    \A r \in Range(store["results"]) : r["rank"] = NULL \/ r["rank"] >= 1

\* ------------------------------------------------------------------ C11
\* C11 (validator aggregation): in the report of run_all_checks each check has
\* ok = TRUE exactly when its invalid_rows is 0, checks_failed is the number of
\* checks with ok = FALSE, checks_total is the number of checks run, and
\* passed is TRUE iff every check has ok = TRUE.
C11_Aggregation ==
    report # NoReport =>
        /\ \A i \in DOMAIN report.checks :
              report.checks[i].ok = (report.checks[i].invalid_rows = 0)
        /\ report.checks_failed = Cardinality({i \in DOMAIN report.checks : ~report.checks[i].ok})
        /\ report.checks_total = Cardinality(DOMAIN report.checks)
        /\ report.checks_total = Len(run_fk_integrity_checks(store)) + Len(run_sanity_checks(store))
        /\ report.passed = (\A i \in DOMAIN report.checks : report.checks[i].ok)

\* a report with two failed checks among the seven
C11_Witness ==
    /\ report # NoReport
    /\ report.checks_total = 7 /\ report.checks_failed = 2 /\ ~report.passed
    /\ \E i \in DOMAIN report.checks : report.checks[i].ok

\* ------------------------------------------------------------------ C12
\* the event rows whose competition_id matches no competition row
OrphanEvents(st) ==
    {i \in DOMAIN st["events"] :
        \A j \in DOMAIN st["competitions"] :
            st["competitions"][j]["competition_id"] # st["events"][i]["competition_id"]}

\* C12 (validator completeness for events): the invalid_rows of the check
\* "events.competition_id exists" is the number of event rows whose
\* competition_id matches no competition row; with exactly one such event the
\* check reports 1 and passed is FALSE.
C12_EventsComplete ==
    report # NoReport =>
        \E i \in DOMAIN report.checks :
            /\ report.checks[i].check = "events.competition_id exists"
            /\ report.checks[i].invalid_rows = Cardinality(OrphanEvents(store))
            /\ Cardinality(OrphanEvents(store)) = 1 =>
                  (report.checks[i].invalid_rows = 1 /\ ~report.checks[i].ok /\ ~report.passed)

\* two events reference the same missing competition: the check counts 2
C12_Witness ==
    /\ report # NoReport
    /\ Len(store["events"]) = 2
    /\ store["events"][1]["competition_id"] = store["events"][2]["competition_id"]
    /\ Cardinality(OrphanEvents(store)) = 2
    /\ report.checks[3].invalid_rows = 2 /\ ~report.passed

\* ------------------------------------------------------------------ C13
\* C13 (the validator is read-only): a run of run_all_checks leaves every row
\* of every table unchanged, whatever the number of failed checks, and it
\* returns the report of all its checks also when checks fail.
C13_ReadOnly ==
    [][report' # report =>
          /\ store' = store /\ staging' = staging
          /\ report'.checks_total = 7 /\ Len(report'.checks) = 7]_vars

\* a sweep found at least two failed checks and the orphans are still stored
C13_Witness ==
    /\ report # NoReport /\ report.checks_failed >= 2
    /\ OrphanEvents(store) # {}
    /\ store \in DriftStores

\* ------------------------------------------------------------------ C14
\* the processes whose call has returned
Returned == {p \in Procs : conc.proc[p].pc = "returned"}

Orders(S) == {o \in [1..Cardinality(S) -> S] : \A i, j \in DOMAIN o : o[i] = o[j] => i = j}

\* the calls of order run one after the other from store st
RECURSIVE SerialRun(_, _, _)
SerialRun(st, order, i) ==
    IF i > Len(order) THEN [ok |-> TRUE, store |-> st]
    ELSE LET r == upsert_dataframe(st, {}, conc.table, conc.proc[order[i]].df, PK(conc.table), order[i])
         IN IF r.outcome # "returned" THEN [ok |-> FALSE, store |-> st]
            ELSE SerialRun(r.store, order, i + 1)

\* C14 (concurrent upserts are serialized): for two processes upserting into
\* the same table, at most one of them is between its UPDATE and its COMMIT,
\* no key is stored twice, and once both calls are over the store is the one
\* some one-after-the-other run of the calls that returned produces.
C14_Serialized ==
    conc.table \in Tables =>
        /\ Cardinality({p \in Procs : conc.proc[p].pc \in {"updated", "inserted"}}) <= 1
        /\ \A i, j \in DOMAIN store[conc.table] :
              WherePk(store[conc.table][i], store[conc.table][j], PK(conc.table)) => i = j
        /\ (\A p \in Procs : conc.proc[p].pc \in {"returned", "raised"}) =>
              \E o \in Orders(Returned) :
                  SerialRun(conc.base, o, 1).ok /\ SerialRun(conc.base, o, 1).store = store

\* both calls returned, their batches differ and share a key, and the table
\* holds what they merged
C14_Witness ==
    /\ conc.table \in Tables
    /\ Returned = Procs
    /\ conc.proc[1].df # conc.proc[2].df
    /\ \E i \in DOMAIN conc.proc[1].df.rows : \E j \in DOMAIN conc.proc[2].df.rows :
          /\ WherePk(conc.proc[1].df.rows[i], conc.proc[2].df.rows[j], PK(conc.table))
          /\ conc.proc[1].df.rows[i] # conc.proc[2].df.rows[j]
    /\ Len(store[conc.table]) > Len(conc.base[conc.table])

\* ------------------------------------------------------------------ C15
\* the raw_imports rows carrying the import_id of the run
ImportRows(st) ==
    {i \in DOMAIN st["raw_imports"] : st["raw_imports"][i]["import_id"] = ingest.import_id}

\* C15 (ingestion outcome is always recorded): a run past source registration
\* writes raw_imports only in its finally clause, after the try block has
\* ended, and writes exactly one row there: status success when the four
\* steps completed, skipped when MissingCredentialError was raised, error for
\* any other Exception; after the row is written an error run re-raises, a
\* skipped or successful run goes on to validation and ends normally.
C15_OutcomeRecorded ==
    /\ [][store'["raw_imports"] # store["raw_imports"] => ingest.pc = "finally"]_vars
    /\ [][ingest.pc = "finally" /\ ingest'.pc # "finally" =>
            /\ Cardinality(ImportRows(store')) = 1
            /\ Len(store'["raw_imports"]) =
                  Len(store["raw_imports"]) + (IF ImportRows(store) = {} THEN 1 ELSE 0)
            /\ \A i \in DOMAIN store["raw_imports"] :
                  i \notin ImportRows(store) => store'["raw_imports"][i] = store["raw_imports"][i]
            /\ \A i \in ImportRows(store') :
                  /\ store'["raw_imports"][i]["status"] \in {STATUS_SUCCESS, STATUS_SKIPPED, STATUS_ERROR}
                  /\ (store'["raw_imports"][i]["status"] = STATUS_SUCCESS) = (ingest.done = 4)
                  /\ (store'["raw_imports"][i]["status"] = STATUS_SKIPPED)
                        = (ingest.exc = "MissingCredentialError")
                  /\ (store'["raw_imports"][i]["status"] = STATUS_ERROR) = (ingest.exc = "Exception")
                  /\ (store'["raw_imports"][i]["error"] = NULL) = (ingest.exc = "none")
            /\ (ingest'.pc = "raised") = (ingest.exc = "Exception")
            /\ (ingest'.pc = "validate") = (ingest.exc # "Exception")]_vars
    /\ [](ingest.pc \in {"validate", "done", "raised"} /\ ingest.import_id # NULL
            => Cardinality(ImportRows(store)) = 1)
    /\ [](ingest.pc = "done" => report # NoReport /\ ingest.exc # "Exception")

\* a run whose fetch raised MissingCredentialError ended normally with one
\* row of status skipped
C15_Witness ==
    /\ ingest.pc = "done" /\ ingest.exc = "MissingCredentialError" /\ ingest.done = 0
    /\ \E i \in ImportRows(store) : store["raw_imports"][i]["status"] = STATUS_SKIPPED
    /\ report # NoReport

\* ------------------------------------------------------------------ C16
\* the value a CSV cell stands for: the empty text is a missing value
CellValue(cell) == IF cell = <<>> THEN NULL ELSE cell[1]

\* the files of directory dir that are named <t>.csv
CsvOf(dir, t) == {f \in dir : f.stem = t /\ f.ext = "csv"}

\* C16 (export fidelity): after a rebuild, for each base and each table of its
\* list, <table>.csv in the base's directory has one line per row of the
\* canonical table, line i standing for row i and for no other row, and
\* rows_synced of the table is its row count.
C16_ExportFidelity ==
    exports.payload # <<>> =>
        \A b \in ActiveBases : \A t \in Range(exports.payload[b].tables) :
            /\ Cardinality(CsvOf(exports.bases[b], t)) = 1
            /\ \A f \in CsvOf(exports.bases[b], t) :
                  /\ Len(f.lines) = Len(store[t])
                  /\ \A i \in DOMAIN f.lines : \A c \in Cols(t) :
                        CellValue(f.lines[i][c]) = store[t][i][c]
                  /\ \A i, j \in DOMAIN f.lines :
                        WherePk(store[t][i], store[t][j], PK(t)) \/ f.lines[i] # f.lines[j] \/ i = j
            /\ exports.payload[b].rows_synced[t] = Len(store[t])

\* a rebuild exported a results table of two rows, one with a NULL rank
C16_Witness ==
    /\ exports.payload # <<>>
    /\ Len(store["results"]) = 2 /\ store["results"][1]["rank"] = NULL
    /\ \E f \in CsvOf(exports.bases["competition"], "results") :
          Len(f.lines) = 2 /\ f.lines[1]["rank"] = <<>> /\ f.lines[2]["rank"] # <<>>
    /\ exports.payload["competition"].rows_synced["results"] = 2

\* ------------------------------------------------------------------ C17
\* C17 as stated: after a rebuild a base's directory holds exactly one file
\* per listed table and no other file, whatever it held before.
C17_Original ==
    exports.payload # <<>> =>
        \A b \in ActiveBases :
            /\ \A f \in exports.bases[b] :
                  f.ext = "csv" /\ f.stem \in Range(exports.payload[b].tables)
            /\ Cardinality(exports.bases[b]) = Len(exports.payload[b].tables)

\* C17 (amended): after a rebuild the *.csv files of a base's directory are
\* exactly one per listed table, every other *.csv file it held before is
\* gone, and the files with another extension are the ones it held before.
C17_StaleCsvRemoved ==
    exports.payload # <<>> =>
        \A b \in ActiveBases :
            /\ {f.stem : f \in {g \in exports.bases[b] : g.ext = "csv"}}
                  = Range(exports.payload[b].tables)
            /\ Cardinality({g \in exports.bases[b] : g.ext = "csv"}) = Len(exports.payload[b].tables)
            /\ {g \in exports.bases[b] : g.ext # "csv"} = {g \in exports.before[b] : g.ext # "csv"}

\* the lineage directory held a stale CSV export and a note before the
\* rebuild; after it the CSV is gone and the note is still there
C17_Witness ==
    /\ exports.payload # <<>>
    /\ File("old_table", "csv", <<>>) \in exports.before["lineage"]
    /\ File("countries", "csv", <<>>) \in exports.before["lineage"]
    /\ File("notes", "txt", <<>>) \in exports.before["lineage"]
    /\ {f.stem : f \in exports.bases["lineage"]} = {"raw_imports", "notes"}

\* ------------------------------------------------------------------ C18
\* C18 as stated: a rebuild leaves the store as it found it: no table or index
\* created or dropped, no row inserted, updated or deleted.
C18_Original ==
    [][exports'.payload # exports.payload =>
          store' = store /\ schema' = schema /\ staging' = staging]_vars

\* C18 (amended): a rebuild inserts, updates and deletes no row and drops no
\* table or index; it creates the tables and indexes of the schema the store
\* file lacks, and leaves a store that has them all exactly as it found it.
C18_RowsUntouched ==
    [][exports'.payload # exports.payload =>
          /\ \A t \in Tables : store'[t] = store[t]
          /\ staging' = staging
          /\ schema \subseteq schema' /\ schema' = AllObjects
          /\ (schema = AllObjects => schema' = schema)]_vars

\* a rebuild ran on a store holding rows: they are all still there
C18_Witness ==
    /\ exports.payload # <<>>
    /\ store = RichStore /\ schema = AllObjects
    /\ exports.payload["competition"].rows_synced["countries"] = 2

\* ------------------------------------------------------------------ C19
\* C19 (schema creation is idempotent): create_schema against a store that
\* has the schema leaves every table, index and row unchanged, rows or not.
C19_SchemaIdempotent ==
    [][(ncalls' # ncalls /\ schema = AllObjects) => (store' = store /\ schema' = schema)]_vars

\* create_schema ran twice on a store that holds rows, and they are all there
C19_Witness ==
    /\ ncalls = 2 /\ schema = AllObjects /\ exports # NoExports
    /\ store = RichStore

\* ------------------------------------------------------------------ C20
\* C20 (unambiguous encoding): two different ordered field tuples give two
\* different hashed strings, and hence, with the same prefix and a hash
\* without collisions, two different identifiers.
C20_Unambiguous ==
    (ids.pc = "derived" /\ ids.a # ids.b) =>
        (ids.payload_a # ids.payload_b /\ ids.id_a # ids.id_b)

IsAlnum(c) == c \in {"a", "A", "1", "é"}

\* lower-case letters, among them those of the fallback token
LowerLetters == {"a", "é", "u", "n", "k", "o", "w"}

\* the input lower-cased, each run of non-alphanumeric characters replaced by
\* one separator, none kept at either end
RECURSIVE RunsReplaced(_)
RunsReplaced(s) ==
    IF s = <<>> THEN <<>>
    ELSE IF IsAlnum(s[1]) THEN <<LowerChar(s[1])>> \o RunsReplaced(Tail(s))
    ELSE IF Len(s) > 1 /\ ~IsAlnum(s[2]) THEN RunsReplaced(Tail(s))
    ELSE <<"-">> \o RunsReplaced(Tail(s))

\* C22 (slugify result shape): the result is non-empty, made of lower-case
\* letters, digits and separators, with no separator leading, trailing or
\* doubled; it is the input with each run of non-alphanumeric characters
\* replaced by one separator, and "unknown" when the input holds no
\* alphanumeric character.
C22_SlugShape ==
    slug.pc = "returned" =>
        LET r == slug.result
            v == slug.value
        IN /\ r # <<>>
           /\ \A i \in DOMAIN r : r[i] \in LowerLetters \cup {"1", "-"}
           /\ r[1] # "-" /\ r[Len(r)] # "-"
           /\ \A i \in 1..(Len(r) - 1) : ~(r[i] = "-" /\ r[i + 1] = "-")
           /\ (\A i \in DOMAIN v : ~IsAlnum(v[i])) => r = Unknown
           /\ (\E i \in DOMAIN v : IsAlnum(v[i])) => r = Strip(RunsReplaced(v), {"-"})

\* ------------------------------------------------------------------ C23
\* C23 (empty batch is a no-op): a call with a null batch or a batch of zero
\* rows returns 0, changes no row of any table and creates no staging table.
C23_EmptyNoOp ==
    [][(ncalls' # ncalls /\ (call'.df.none \/ call'.df.rows = <<>>)) =>
          /\ call'.outcome = "returned" /\ call'.ret = 0
          /\ store' = store
          /\ staging' = staging]_vars

\* the second call, on a table that holds rows, was given a batch of zero rows
C23_Witness ==
    /\ ncalls = 2 /\ call.outcome = "returned" /\ call.ret = 0
    /\ ~call.df.none /\ call.df.rows = <<>> /\ call.df.columns # {}
    /\ Len(store[call.table]) = 2

\* ------------------------------------------------------------------ C24
\* C24 (the staging table is always discarded): when a call has ended, by
\* returning or by raising, the store file holds no _stg_* relation.
C24_StagingDiscarded == call.outcome \in {"returned", "raised"} => staging = {}

\* ------------------------------------------------------------------ C25
\* the competitions, events and results rows of st whose competition has a
\* source_id other than src
OthersRows(st, t, src) ==
    LET Foreign(cid) ==
            \E c \in Range(st["competitions"]) :
                SqlEq(c["competition_id"], cid) /\ c["source_id"] # src
        EventForeign(eid) ==
            \E e \in Range(st["events"]) : SqlEq(e["event_id"], eid) /\ Foreign(e["competition_id"])
    IN CASE t = "competitions" -> {c \in Range(st[t]) : c["source_id"] # src}
         [] t = "events" -> {e \in Range(st[t]) : Foreign(e["competition_id"])}
         [] t = "results" -> {r \in Range(st[t]) : EventForeign(r["event_id"])}
         [] OTHER -> {}

\* C25 (selective deletion is by own source): the delete step of a connector
\* removes no competition whose source_id is not the connector's id, and no
\* event or result under such a competition: the rows another connector
\* merged are all still there after the step.
C25_OwnRowsOnly ==
    [][(krun.pc = "delete" /\ krun'.pc # "delete") =>
          \A t \in {"competitions", "events", "results"} :
              OthersRows(store, t, SELF) \subseteq Range(store'[t])]_vars

\* ------------------------------------------------------------------ C26
\* C26 (one transaction per table): when the merge of a table raises, the run
\* ends there and the store is left as the transactions committed before it
\* made it: the deletions of the delete step and the merges of the earlier
\* tables are not undone, and only the failing table's merge is rolled back.
C26_CommitPerTable ==
    [][(krun.pc = "merge" /\ krun'.pc = "raised") =>
          /\ store' = store
          /\ krun'.step = krun.step]_vars

\* the merge of results raised after the delete step had removed the rows of
\* the connector's source and the competitions table had been merged: the
\* deletions and the merged competition are in the store
C26_Witness ==
    /\ krun.pc = "raised" /\ krun.connector = "fiba_ranking_history"
    /\ MergeOrder(krun.connector)[krun.step] = "results"
    /\ krun.base = StoreOf({SELF, PARIS})
    /\ krun.deleted # krun.base /\ store # krun.deleted
    /\ store["events"] = StoreOf({PARIS})["events"]
    /\ Len(store["competitions"]) = 2 /\ store["competitions"][2]["competition_id"] = SELF

\* ------------------------------------------------------------------ C27
\* C27 (crash safety of one upsert): killing the process at any point of the
\* call changes no table; afterwards the killed call holds no lock, a call
\* that has not yet written can take the write lock, and once every call is
\* over the store is what the calls that returned merged, one after the
\* other: of a killed call's UPDATE and INSERT nothing is kept.
C27_CrashSafe ==
    /\ [][\A p \in Procs :
            (conc.table \in Tables /\ conc'.proc[p].pc = "killed" /\ conc.proc[p].pc # "killed")
                => store' = store]_vars
    /\ [](conc.table \in Tables =>
            /\ \A p \in Procs : conc.proc[p].pc = "killed" => conc.lock # p
            /\ \A p, q \in Procs :
                  (conc.proc[p].pc = "killed" /\ conc.proc[q].pc \in {"start", "staged"}
                   /\ \A o \in Procs \ {p, q} : conc.proc[o].pc \notin {"updated", "inserted"})
                      => CanWrite(conc.lock, q)
            /\ (\A p \in Procs : conc.proc[p].pc \in {"returned", "raised", "killed"}) =>
                  \E o \in Orders(Returned) :
                      SerialRun(conc.base, o, 1).ok /\ SerialRun(conc.base, o, 1).store = store)

\* process 1 was killed between its UPDATE and its COMMIT, with changes
\* pending; process 2 then merged its batch, and the table holds that merge only
C27_Witness ==
    /\ conc.table \in Tables
    /\ conc.proc[1].pc = "killed" /\ conc.proc[1].work # <<>>
    /\ conc.proc[1].work # conc.base[conc.table]
    /\ conc.proc[2].pc = "returned"
    /\ store[conc.table] # conc.proc[1].work
    /\ store[conc.table] # conc.base[conc.table]

\* ------------------------------------------------------------------ C28
\* two rows carry the same primary key, a missing key included
SameKey(a, b, pk_cols) == \A i \in DOMAIN pk_cols : a[pk_cols[i]] = b[pk_cols[i]]

\* C28 (no duplicate rows from one batch): when two rows of the batch carry
\* the same primary key, the target table holds at most one row with that key
\* after the call, returned or raised, stored before or not.
C28_NoDuplicateRows ==
    [][ncalls' # ncalls =>
          LET t == call'.table
              rows == call'.df.rows
          IN \A i, j \in DOMAIN rows :
                (i # j /\ SameKey(rows[i], rows[j], PK(t))) =>
                    Cardinality({k \in DOMAIN store'[t] : SameKey(store'[t][k], rows[i], PK(t))}) <= 1]_vars

\* ------------------------------------------------------------------ C29
\* C29 (omitted columns are preserved): a merge whose batch lacks columns of
\* the table leaves, in every stored row, the values of those columns as they
\* were; when it returns, the stored rows its batch matches hold the incoming
\* values in the non-key columns of the batch.
C29_OmittedPreserved ==
    [][krun.pc = "merge" =>
          LET t == call'.table
              df == call'.df
          IN \A j \in DOMAIN store[t] :
                /\ \A c \in Cols(t) \ df.columns : store'[t][j][c] = store[t][j][c]
                /\ (call'.outcome = "returned" /\ HasMatch(df.rows, store[t][j], PK(t))) =>
                      \A c \in df.columns \ Range(PK(t)) :
                          store'[t][j][c] = Subquery(df.rows, store[t][j], PK(t), c)]_vars

\* the stored country 1 was matched by a batch without iso3 and name_fr: iso2
\* took the incoming value, iso3 and name_fr hold what they held
C29_Witness ==
    /\ krun.pc = "merge" /\ krun.step = 2 /\ call.table = "countries"
    /\ call.outcome = "returned" /\ "iso3" \notin call.df.columns
    /\ krun.base["countries"][1]["iso2"] = 1 /\ store["countries"][1]["iso2"] = 2
    /\ store["countries"][1]["iso3"] = 1 /\ store["countries"][1]["name_fr"] = 1

\* ------------------------------------------------------------------ C30
\* in order, every table comes after the tables of order it references
ParentsFirst(order) ==
    \A i \in DOMAIN order : \A fk \in FK(order[i]) :
        fk.parent \in Range(order) => \E j \in 1..(i - 1) : order[j] = fk.parent

\* every foreign key of every payload row of the merged tables is NULL, or
\* points to a row of store st, or to a payload row of a merged table
Closed(payload, st, order) ==
    \A t \in Range(order) : \A i \in DOMAIN payload[t].rows : \A fk \in FK(t) :
        fk.col \in payload[t].columns =>
            LET v == payload[t].rows[i][fk.col]
            IN \/ v = NULL
               \/ \E q \in Range(st[fk.parent]) : q[fk.pcol] = v
               \/ /\ fk.parent \in Range(order)
                  /\ \E q \in Range(payload[fk.parent].rows) : q[fk.pcol] = v

\* an upsert_dataframe call of the run raised
MergeRaised == krun.pc = "raised" /\ call.outcome = "raised"

\* C30 as stated: a payload whose foreign keys all point into the payload or
\* to rows stored when the run starts merges without a raise.
C30_Original ==
    (krun.pc \notin {"idle", "delete"} /\ Closed(krun.payload, krun.base, MergeOrder(krun.connector)))
        => ~MergeRaised

\* C30 (amended): every run merges a table after the tables it references
\* (sources before raw_imports in the bootstrap), and a payload whose foreign
\* keys all point into the payload or to rows the store holds once the delete
\* step of the connector has run merges without a raise.
C30_ParentsFirst ==
    /\ krun.pc # "idle" => ParentsFirst(MergeOrder(krun.connector))
    /\ (krun.pc \notin {"idle", "delete"}
        /\ Closed(krun.payload, krun.deleted, MergeOrder(krun.connector)))
          => ~MergeRaised

\* on a store that held the rows of both sources, a run merged a competition,
\* an event under it, a participant and their result, each pointing to the
\* payload row merged before it
C30_Witness ==
    /\ krun.pc = "returned" /\ krun.connector = "olympics_keith_history"
    /\ krun.base = StoreOf({SELF, PARIS}) /\ krun.deleted # krun.base
    /\ Closed(krun.payload, krun.deleted, MergeOrder(krun.connector))
    /\ Len(krun.payload["results"].rows) = 1 /\ Len(krun.payload["events"].rows) = 1
    /\ Len(krun.payload["competitions"].rows) = 1 /\ Len(krun.payload["participants"].rows) = 1
    /\ Len(store["results"]) = 1
    /\ store["results"][1]["event_id"] = krun.payload["events"].rows[1]["event_id"]

====
